---- MODULE Spec2Model ----
(***************************************************************************)
(* Model of app.py (AI Study Motivation Agent): the rule-based plan        *)
(* generator of StudyMotivationAgent, the JSON-file history store          *)
(* (load_history / save_entry / clear_history) and the Streamlit page run  *)
(* that ties them together.                                                *)
(*                                                                         *)
(* Python strings are modelled as sequences of one-character strings so    *)
(* that lower(), strip() and the "in" substring test are computed, not     *)
(* assumed.  The canned sentences of the generator are single chunks.      *)
(***************************************************************************)
EXTENDS Integers, Sequences, FiniteSets, TLC

VARIABLES
    subject, difficulty, reason_text, mood, time_available,  \* form values / arguments
    save_to_history, submit, clear_clicked,                  \* checkbox and the two buttons
    analysis, plan, enriched_text,                           \* outputs of the submit branch
    GOOGLE_GENAI_AVAILABLE, GEMINI_API_KEY,                  \* module-level configuration
    pc,                                                      \* position of the caller / page script
    clear_shown,                                             \* "Clear history" button is on the page
    file,                                                    \* DATA_FILE on disk
    clock,                                                   \* datetime.now()
    op, spc, history, entry, raised,                         \* per caller: store call in progress
    \* history variables, used only to state properties
    log, clean, pre, wfail, race, overlap, last_dump, file0, nwrites, ext_outcome

formVars == <<subject, difficulty, reason_text, mood, time_available, save_to_history>>
outVars == <<analysis, plan, enriched_text>>
cfgVars == <<GOOGLE_GENAI_AVAILABLE, GEMINI_API_KEY>>
pageVars == <<submit, clear_clicked, pc, clear_shown, file0, nwrites, ext_outcome>>
callVars == <<op, spc, history, entry, raised, pre, wfail>>
raceVars == <<race, overlap, last_dump>>
vars == <<formVars, outVars, cfgVars, pageVars, callVars, raceVars, file, clock, log, clean>>

-----------------------------------------------------------------------------
(* Python str helpers *)

UpperChars == <<"A","B","C","D","E","F","G","H","I","J","K","L","M",
                "N","O","P","Q","R","S","T","U","V","W","X","Y","Z">>
LowerChars == <<"a","b","c","d","e","f","g","h","i","j","k","l","m",
                "n","o","p","q","r","s","t","u","v","w","x","y","z">>
Whitespace == {" ", "\t", "\n"}

LowerChar(c) ==
    IF \E i \in DOMAIN UpperChars : UpperChars[i] = c
    THEN LowerChars[CHOOSE i \in DOMAIN UpperChars : UpperChars[i] = c]
    ELSE c

\* str.lower()
lower(s) == [i \in DOMAIN s |-> LowerChar(s[i])]

\* str.strip(): drop leading and trailing whitespace
strip(s) ==
    LET keep == {i \in DOMAIN s : s[i] \notin Whitespace}
    IN  IF keep = {} THEN <<>>
        ELSE LET lo == CHOOSE i \in keep : \A j \in keep : i <= j
                 hi == CHOOSE i \in keep : \A j \in keep : j <= i
             IN  SubSeq(s, lo, hi)

\* k in s  (substring test)
contains(s, k) ==
    \E i \in 1..(Len(s) - Len(k) + 1) : SubSeq(s, i, i + Len(k) - 1) = k

\* " ".join(parts)
RECURSIVE join(_)
join(parts) ==
    IF parts = <<>> THEN <<>>
    ELSE IF Len(parts) = 1 THEN parts[1]
    ELSE parts[1] \o <<" ">> \o join(Tail(parts))

-----------------------------------------------------------------------------
(* String literals of the source *)

very_hard == <<"v", "e", "r", "y", " ", "h", "a", "r", "d">>
hard == <<"h", "a", "r", "d">>
difficult == <<"d", "i", "f", "f", "i", "c", "u", "l", "t">>
medium == <<"m", "e", "d", "i", "u", "m">>
okay == <<"o", "k", "a", "y">>
tired == <<"t", "i", "r", "e", "d">>
stressed == <<"s", "t", "r", "e", "s", "s", "e", "d">>
low_motivation == <<"l", "o", "w", " ", "m", "o", "t", "i", "v", "a", "t", "i", "o", "n">>
low == <<"l", "o", "w">>
formul == <<"f", "o", "r", "m", "u", "l">>
formula == <<"f", "o", "r", "m", "u", "l", "a">>
concept == <<"c", "o", "n", "c", "e", "p", "t">>
abstract == <<"a", "b", "s", "t", "r", "a", "c", "t">>
practice == <<"p", "r", "a", "c", "t", "i", "c", "e">>
problems == <<"p", "r", "o", "b", "l", "e", "m", "s">>
your_topic == <<"y", "o", "u", "r", " ", "t", "o", "p", "i", "c">>

HardLevels == {very_hard, hard, difficult}
MediumLevels == {medium, okay}
LowMoods == {tired, stressed, low_motivation, low}

\* sentences appended by analyze_reason_local
FragChallenge == "The topic is challenging - it likely needs smaller steps and more practice."
FragManageable == "Content is manageable but may need better structure or focused sessions."
FragEasy == "Material seems easy - the issue may be motivation or routine."
FragMood == "Current energy/mood suggests short sessions and self-care first (rest, hydration)."
FragFormula == "Formulas often need active practice and spaced repetition."
FragConcept == "Try visual examples and small analogies to ground abstract concepts."
FragPractice == "Practice-based learning will help - start with guided examples."
FragLimitedTime == "You have limited time - micro-tasks (10-20 min) are best."
FragLongTime == "You have long time blocks - structure them into deep-work sessions."

\* sentences appended by build_plan_local
MsgTinySteps == "Break goals into tiny steps - each small win builds momentum."
MsgFocusedBlocks == "Use focused blocks and active recall to keep progress steady."
MsgEnergizer == "Start with a 5-minute energizer (stretch/breath) then work in short bursts."
MsgWarmUp == "Start strong with a short warm-up recap to prime your brain."
MsgMicro == "Micro-sessions: strict timers (15-20 min) work best right now."
MsgPomodoro == "Use 25/5 or 50/10 Pomodoro blocks depending on preference."
MsgDeep == "Combine deep sessions with short breaks and a clear end-of-day review."

weekly_plan ==
    << [day |-> "Mon", focus |-> "Core concept + 1 guided problem"],
       [day |-> "Tue", focus |-> "Flashcards & active recall"],
       [day |-> "Wed", focus |-> "Problem solving + explain out loud"],
       [day |-> "Thu", focus |-> "Timed practice + error review"],
       [day |-> "Fri", focus |-> "Mock/test-style practice"],
       [day |-> "Sat", focus |-> "Revise weak spots"],
       [day |-> "Sun", focus |-> "Rest + light overview"] >>

-----------------------------------------------------------------------------
(* StudyMotivationAgent *)

\* parts.append(x) when cond
AppendIf(parts, cond, x) == IF cond THEN Append(parts, <<x>>) ELSE parts

\* a difficulty compared without lower(): only all-lowercase input matches
difficulty_fragment_case_sensitive(diffArg) ==
    LET diff == strip(diffArg) IN
    IF diff \in HardLevels THEN FragChallenge
    ELSE IF diff \in MediumLevels THEN FragManageable
    ELSE FragEasy

\* diff = difficulty.lower().strip() and the difficulty heuristics
difficulty_fragment(diffArg) ==
    LET diff == strip(lower(diffArg)) IN
    IF diff \in HardLevels THEN FragChallenge
    ELSE IF diff \in MediumLevels THEN FragManageable
    ELSE FragEasy

analyze_reason_local(subj, diffArg, reasonArg, moodArg, time_available_min) ==
    LET mood_l == strip(lower(moodArg))
        reason_l == strip(reasonArg)
        p1 == << <<difficulty_fragment(diffArg)>> >>
        p2 == AppendIf(p1, mood_l \in LowMoods, FragMood)
        p3 == AppendIf(p2, reason_l # <<>> /\ (contains(reason_l, formul) \/ contains(reason_l, formula)),
                       FragFormula)
        p4 == AppendIf(p3, reason_l # <<>> /\ (contains(reason_l, concept) \/ contains(reason_l, abstract)),
                       FragConcept)
        p5 == AppendIf(p4, reason_l # <<>> /\ (contains(reason_l, practice) \/ contains(reason_l, problems)),
                       FragPractice)
        p6 == IF time_available_min < 30 THEN Append(p5, <<FragLimitedTime>>)
              ELSE IF time_available_min > 180 THEN Append(p5, <<FragLongTime>>)
              ELSE p5
    IN  join(p6)

\* the task lists with the first boundary off by one (t <= 30)
today_tasks_for_boundary_off(subj, t) ==
    IF t <= 30 THEN
        << <<"Warm-up (5-10 min): quick recap of one key idea from ">> \o subj \o <<".">>,
           <<"Micro-practice (10-15 min): solve one short problem or make 3 flashcards.">> >>
    ELSE IF t < 90 THEN
        << <<"Warm-up (10 min): recap notes for ">> \o subj \o <<".">>,
           <<"Focused session (30-40 min): deep work on one sub-topic with practice.">>,
           <<"Consolidation (10-15 min): write 5 recall questions and answers.">> >>
    ELSE
        << <<"Warm-up & review (15 min): revisit yesterday's weak points in ">> \o subj \o <<".">>,
           <<"Deep work (2 x 45-50 min): practice problems or concept mapping, with short break.">>,
           <<"Reflection (15 min): note mistakes and plan next day's focus.">> >>

\* today tasks based on available time; each task is an f-string or a literal
today_tasks_for(subj, t) ==
    IF t < 30 THEN
        << <<"Warm-up (5-10 min): quick recap of one key idea from ">> \o subj \o <<".">>,
           <<"Micro-practice (10-15 min): solve one short problem or make 3 flashcards.">> >>
    ELSE IF t < 90 THEN
        << <<"Warm-up (10 min): recap notes for ">> \o subj \o <<".">>,
           <<"Focused session (30-40 min): deep work on one sub-topic with practice.">>,
           <<"Consolidation (10-15 min): write 5 recall questions and answers.">> >>
    ELSE
        << <<"Warm-up & review (15 min): revisit yesterday's weak points in ">> \o subj \o <<".">>,
           <<"Deep work (2 x 45-50 min): practice problems or concept mapping, with short break.">>,
           <<"Reflection (15 min): note mistakes and plan next day's focus.">> >>

build_plan_local(subjArg, diffArg, reasonArg, moodArg, time_available_min) ==
    LET diff == strip(lower(diffArg))
        mood_l == strip(lower(moodArg))
        subj == IF strip(subjArg) # <<>> THEN strip(subjArg) ELSE your_topic
        m1 == << IF diff \in HardLevels THEN <<MsgTinySteps>> ELSE <<MsgFocusedBlocks>> >>
        m2 == Append(m1, IF mood_l \in LowMoods THEN <<MsgEnergizer>> ELSE <<MsgWarmUp>>)
        m3 == Append(m2, IF time_available_min < 30 THEN <<MsgMicro>>
                         ELSE IF time_available_min < 90 THEN <<MsgPomodoro>>
                         ELSE <<MsgDeep>>)
    IN  [motivational_message |-> join(m3),
         today_tasks |-> today_tasks_for(subj, time_available_min),
         weekly_plan |-> weekly_plan]

NoPlan == [motivational_message |-> <<>>, today_tasks |-> <<>>, weekly_plan |-> <<>>]

-----------------------------------------------------------------------------
(* json: the text of DATA_FILE is a sequence of tokens.  json.dump writes    *)
(* the tokens of a list of entries; json.load parses any token sequence and  *)
(* raises on anything that is not one complete JSON value.                   *)

Punct(c) == [p |-> c]
Key(k) == [key |-> k]
Num(n) == [num |-> n]
Str(t) == [str |-> t]

\* a Python value as seen by the caller of json.load
PyVal(type, val) == [type |-> type, val |-> val]
EmptyList == PyVal("list", <<>>)

RECURSIVE DumpTasks(_)
\* the strings of today_tasks, separated by commas
DumpTasks(tasks) ==
    IF tasks = <<>> THEN <<>>
    ELSE IF Len(tasks) = 1 THEN <<Str(tasks[1])>>
    ELSE <<Str(tasks[1]), Punct(",")>> \o DumpTasks(Tail(tasks))

DumpEntry(e) ==
    <<Punct("{"),
      Key("timestamp"), Num(e.timestamp), Punct(","),
      Key("subject"), Str(e.subject), Punct(","),
      Key("difficulty"), Str(e.difficulty), Punct(","),
      Key("reason"), Str(e.reason), Punct(","),
      Key("mood"), Str(e.mood), Punct(","),
      Key("time_available"), Num(e.time_available), Punct(","),
      Key("analysis"), Str(e.analysis), Punct(","),
      Key("today_tasks"), Punct("[")>>
    \o DumpTasks(e.today_tasks)
    \o <<Punct("]"), Punct("}")>>

RECURSIVE DumpEntries(_)
\* the entries of the history list, separated by commas
DumpEntries(lst) ==
    IF lst = <<>> THEN <<>>
    ELSE IF Len(lst) = 1 THEN DumpEntry(lst[1])
    ELSE DumpEntry(lst[1]) \o <<Punct(",")>> \o DumpEntries(Tail(lst))

\* json.dump(history, f) for a list of entries
json_dump(lst) == <<Punct("[")>> \o DumpEntries(lst) \o <<Punct("]")>>

Fail == [ok |-> FALSE, type |-> "none", val |-> <<>>, next |-> 0]
Parsed(type, val, next) == [ok |-> TRUE, type |-> type, val |-> val, next |-> next]

RECURSIVE ParseValue(_, _), ParseElems(_, _, _), ParseMembers(_, _, _)

\* one JSON value starting at token i
ParseValue(toks, i) ==
    IF i > Len(toks) THEN Fail
    ELSE LET tok == toks[i] IN
         IF "num" \in DOMAIN tok THEN Parsed("int", tok.num, i + 1)
         ELSE IF "str" \in DOMAIN tok THEN Parsed("str", tok.str, i + 1)
         ELSE IF tok = Punct("[") THEN
              IF i + 1 <= Len(toks) /\ toks[i + 1] = Punct("]")
              THEN Parsed("list", <<>>, i + 2)
              ELSE ParseElems(toks, i + 1, <<>>)
         ELSE IF tok = Punct("{") THEN
              IF i + 1 <= Len(toks) /\ toks[i + 1] = Punct("}")
              THEN Parsed("dict", <<>>, i + 2)
              ELSE ParseMembers(toks, i + 1, <<>>)
         ELSE Fail

\* the elements of an array after "[" or ",", up to and including "]"
ParseElems(toks, i, acc) ==
    LET v == ParseValue(toks, i) IN
    IF ~v.ok \/ v.next > Len(toks) THEN Fail
    ELSE IF toks[v.next] = Punct(",") THEN ParseElems(toks, v.next + 1, Append(acc, v.val))
    ELSE IF toks[v.next] = Punct("]") THEN Parsed("list", Append(acc, v.val), v.next + 1)
    ELSE Fail

\* the members of an object after "{" or ",", up to and including "}"
ParseMembers(toks, i, acc) ==
    IF i > Len(toks) \/ "key" \notin DOMAIN toks[i] THEN Fail
    ELSE LET v == ParseValue(toks, i + 1)
             d == (toks[i].key :> v.val) @@ acc
         IN  IF ~v.ok \/ v.next > Len(toks) THEN Fail
             ELSE IF toks[v.next] = Punct(",") THEN ParseMembers(toks, v.next + 1, d)
             ELSE IF toks[v.next] = Punct("}") THEN Parsed("dict", d, v.next + 1)
             ELSE Fail

\* json.load(f): the value, or an exception when the text is not exactly one value
json_load(toks) ==
    LET v == ParseValue(toks, 1) IN
    IF v.ok /\ v.next = Len(toks) + 1 THEN v ELSE Fail

-----------------------------------------------------------------------------
(* DATA_FILE and the persistence helpers *)

Absent == [exists |-> FALSE, readable |-> FALSE, text |-> <<>>]

\* load_history(): [] when the file is missing, cannot be opened or does not parse
load_history(f) ==
    IF f.exists
    THEN IF f.readable /\ json_load(f.text).ok
         THEN PyVal(json_load(f.text).type, json_load(f.text).val)
         ELSE EmptyList
    ELSE EmptyList

\* an open that creates the file but keeps the old content (mode "r+"/"a" slip)
open_w_keep(f) ==
    IF f.exists THEN f
    ELSE [exists |-> TRUE, readable |-> TRUE, text |-> <<>>]

\* open(DATA_FILE, "w"): creates or truncates
open_w(f) ==
    IF f.exists THEN [f EXCEPT !.text = <<>>]
    ELSE [exists |-> TRUE, readable |-> TRUE, text |-> <<>>]

\* how much of data reaches the disk: all of it, or, when the write fails,
\* nothing, the first token only, or everything but the last token
WriteLengths(data) == {0, 1, Len(data) - 1, Len(data)}

\* a write of data at offset 0 of the just-opened descriptor
write_at_0(f, data) ==
    [f EXCEPT !.text = data \o SubSeq(f.text, Len(data) + 1, Len(f.text))]

-----------------------------------------------------------------------------
(* Bounds of the model *)

\* number of entries that are ever created (each takes one clock reading)
MaxClock == 2

\* callers of the store: one in the sequential specifications, two when racing
Procs == {1, 2}
Other(p) == 3 - p

-----------------------------------------------------------------------------
(* The entry built by the submit branch *)

\* subject.strip() or "your topic"
context_subject(subj) == IF strip(subj) # <<>> THEN strip(subj) ELSE your_topic

\* the dict literal with mood and difficulty exchanged
page_entry_swapped(ts, ctx_subject, diff, reason, md, t, an, tasks) ==
    [timestamp |-> ts,
     subject |-> ctx_subject,
     difficulty |-> md,
     reason |-> reason,
     mood |-> diff,
     time_available |-> t,
     analysis |-> an,
     today_tasks |-> tasks]

\* the dict literal passed to save_entry
page_entry(ts, ctx_subject, diff, reason, md, t, an, tasks) ==
    [timestamp |-> ts,
     subject |-> ctx_subject,
     difficulty |-> diff,
     reason |-> reason,
     mood |-> md,
     time_available |-> t,
     analysis |-> an,
     today_tasks |-> tasks]

NoEntry == page_entry(0, <<>>, <<>>, <<>>, <<>>, 0, <<>>, <<>>)

-----------------------------------------------------------------------------
(* save_entry, clear_history and load_history as steps of a caller p *)

\* a call starts: remember the file as it was, clear the outcome flags
Begin(p, o, at, e) ==
    /\ op' = [op EXCEPT ![p] = o]
    /\ spc' = [spc EXCEPT ![p] = at]
    /\ entry' = [entry EXCEPT ![p] = e]
    /\ raised' = [raised EXCEPT ![p] = FALSE]
    /\ pre' = [pre EXCEPT ![p] = file]
    /\ wfail' = [wfail EXCEPT ![p] = "none"]
    /\ race' = 0
    /\ overlap' = FALSE
    /\ UNCHANGED <<history, last_dump>>

\* load_history() called on its own
load_history_call(p) ==
    /\ spc[p] = "lh"
    /\ history' = [history EXCEPT ![p] = load_history(file)]
    /\ spc' = [spc EXCEPT ![p] = "ret"]
    /\ UNCHANGED <<formVars, outVars, cfgVars, pageVars, raceVars, file, clock, log, clean,
                   op, entry, raised, pre, wfail>>

\* save_entry: history = load_history()
save_entry_load(p) ==
    /\ spc[p] = "se_load"
    /\ history' = [history EXCEPT ![p] = load_history(file)]
    /\ spc' = [spc EXCEPT ![p] = "se_append"]
    /\ UNCHANGED <<formVars, outVars, cfgVars, pageVars, raceVars, file, clock, log, clean,
                   op, entry, raised, pre, wfail>>

\* save_entry that forgets what it loaded: history = [entry]
save_entry_append_only_new(p) ==
    /\ spc[p] = "se_append"
    /\ history' = [history EXCEPT ![p] = PyVal("list", <<entry[p]>>)]
    /\ spc' = [spc EXCEPT ![p] = "se_open"]
    /\ UNCHANGED <<formVars, outVars, cfgVars, pageVars, raceVars, file, clock, log, clean,
                   op, entry, raised, pre, wfail>>

\* save_entry: history.append(entry); AttributeError when history is not a list
save_entry_append(p) ==
    /\ spc[p] = "se_append"
    /\ IF history[p].type = "list"
       THEN /\ history' = [history EXCEPT ![p] = PyVal("list", Append(history[p].val, entry[p]))]
            /\ spc' = [spc EXCEPT ![p] = "se_open"]
            /\ UNCHANGED <<raised, clean>>
       ELSE /\ raised' = [raised EXCEPT ![p] = TRUE]
            /\ spc' = [spc EXCEPT ![p] = "ret"]
            /\ clean' = FALSE
            /\ UNCHANGED history
    /\ UNCHANGED <<formVars, outVars, cfgVars, pageVars, raceVars, file, clock, log,
                   op, entry, pre, wfail>>

\* save_entry: open(DATA_FILE, "w"); a failure is swallowed by except: pass
save_entry_open(p) ==
    /\ spc[p] = "se_open"
    /\ \E ok \in BOOLEAN :
         IF ok
         THEN /\ file' = open_w(file)
              /\ spc' = [spc EXCEPT ![p] = "se_dump"]
              /\ race' = IF race = 0 /\ op[Other(p)] = "append"
                            /\ spc[Other(p)] \in {"se_append", "se_open"}
                         THEN p ELSE race
              /\ overlap' = (overlap \/ (race = Other(p) /\ spc[Other(p)] = "se_dump"))
              /\ UNCHANGED <<wfail, clean>>
         ELSE /\ wfail' = [wfail EXCEPT ![p] = "open"]
              /\ spc' = [spc EXCEPT ![p] = "ret"]
              /\ clean' = FALSE
              /\ UNCHANGED <<file, race, overlap>>
    /\ UNCHANGED <<formVars, outVars, cfgVars, pageVars, last_dump, clock, log,
                   op, history, entry, raised, pre>>

\* save_entry: json.dump(history, f, indent=2) and close; the write may stop
\* part-way, and that failure is swallowed by except: pass
save_entry_dump(p) ==
    /\ spc[p] = "se_dump"
    /\ LET data == json_dump(history[p].val) IN
       \E n \in WriteLengths(data) :
         /\ file' = write_at_0(file, SubSeq(data, 1, n))
         /\ IF n = Len(data)
            THEN /\ log' = Append(log, entry[p])
                 /\ UNCHANGED <<wfail, clean>>
            ELSE /\ wfail' = [wfail EXCEPT ![p] = "write"]
                 /\ clean' = FALSE
                 /\ UNCHANGED log
    /\ spc' = [spc EXCEPT ![p] = "ret"]
    /\ last_dump' = p
    /\ UNCHANGED <<formVars, outVars, cfgVars, pageVars, race, overlap, clock,
                   op, history, entry, raised, pre>>

\* clear_history: open(DATA_FILE, "w")
clear_history_open(p) ==
    /\ spc[p] = "ch_open"
    /\ \E ok \in BOOLEAN :
         IF ok
         THEN /\ file' = open_w(file)
              /\ spc' = [spc EXCEPT ![p] = "ch_dump"]
              /\ UNCHANGED <<wfail, clean>>
         ELSE /\ wfail' = [wfail EXCEPT ![p] = "open"]
              /\ spc' = [spc EXCEPT ![p] = "ret"]
              /\ clean' = FALSE
              /\ UNCHANGED file
    /\ UNCHANGED <<formVars, outVars, cfgVars, pageVars, raceVars, clock, log,
                   op, history, entry, raised, pre>>

\* clear_history: json.dump([], f) and close
clear_history_dump(p) ==
    /\ spc[p] = "ch_dump"
    /\ LET data == json_dump(<<>>) IN
       \E n \in WriteLengths(data) :
         /\ file' = write_at_0(file, SubSeq(data, 1, n))
         /\ IF n = Len(data)
            THEN /\ log' = <<>>
                 /\ UNCHANGED <<wfail, clean>>
            ELSE /\ wfail' = [wfail EXCEPT ![p] = "write"]
                 /\ clean' = FALSE
                 /\ UNCHANGED log
    /\ spc' = [spc EXCEPT ![p] = "ret"]
    /\ last_dump' = p
    /\ UNCHANGED <<formVars, outVars, cfgVars, pageVars, race, overlap, clock,
                   op, history, entry, raised, pre>>

StoreStep(p) ==
    \/ load_history_call(p)
    \/ save_entry_load(p)
    \/ save_entry_append(p)
    \/ save_entry_open(p)
    \/ save_entry_dump(p)
    \/ clear_history_open(p)
    \/ clear_history_dump(p)

-----------------------------------------------------------------------------
(* Callers of the store API: loadAll(), append(r), clearAll() in any order *)

\* the submissions the callers and the form draw from
Text_Math == <<"M", "a", "t", "h">>
Text_PaddedMath == <<" ", "M", "a", "t", "h", " ">>
Text_formulas == <<"f", "o", "r", "m", "u", "l", "a", "s">>
OptVeryHard == <<"V", "e", "r", "y", " ", "H", "a", "r", "d">>
OptHard == <<"H", "a", "r", "d">>
OptMedium == <<"M", "e", "d", "i", "u", "m">>
OptEasy == <<"E", "a", "s", "y">>
OptFocused == <<"F", "o", "c", "u", "s", "e", "d">>
OptTired == <<"T", "i", "r", "e", "d">>
OptStressed == <<"S", "t", "r", "e", "s", "s", "e", "d">>
OptLowMotivation == <<"L", "o", "w", " ", "M", "o", "t", "i", "v", "a", "t", "i", "o", "n">>

Submission(subj, diff, reason, md, t) ==
    [subject |-> subj, difficulty |-> diff, reason_text |-> reason, mood |-> md, time_available |-> t]

Submissions ==
    { Submission(<<>>, OptEasy, <<>>, OptFocused, 120),
      Submission(Text_PaddedMath, OptHard, Text_formulas, OptTired, 15),
      Submission(Text_Math, OptMedium, <<>>, OptStressed, 60) }

\* the entry the submit branch builds for submission s at time ts
EntryOf(ts, s) ==
    LET ctx == context_subject(s.subject) IN
    page_entry(ts, ctx, s.difficulty, s.reason_text, s.mood, s.time_available,
               analyze_reason_local(ctx, s.difficulty, s.reason_text, s.mood, s.time_available),
               build_plan_local(ctx, s.difficulty, s.reason_text, s.mood, s.time_available).today_tasks)

CallLoad(p) ==
    /\ pc = "api"
    /\ spc[p] = "ret"
    /\ Begin(p, "load", "lh", entry[p])
    /\ UNCHANGED <<formVars, outVars, cfgVars, pageVars, file, clock, log, clean>>

CallAppend(p) ==
    /\ pc = "api"
    /\ spc[p] = "ret"
    /\ clock < MaxClock
    /\ clock' = clock + 1
    /\ \E s \in Submissions : Begin(p, "append", "se_load", EntryOf(clock + 1, s))
    /\ UNCHANGED <<formVars, outVars, cfgVars, pageVars, file, log, clean>>

CallClear(p) ==
    /\ pc = "api"
    /\ spc[p] = "ret"
    /\ Begin(p, "clear", "ch_open", entry[p])
    /\ UNCHANGED <<formVars, outVars, cfgVars, pageVars, file, clock, log, clean>>

-----------------------------------------------------------------------------
(* Initial states *)

OldEntry == EntryOf(0, Submission(Text_Math, OptHard, <<>>, OptFocused, 200))

\* DATA_FILE as the program may find it: missing, written by an earlier run,
\* left truncated by an interrupted write, unreadable, or holding other JSON
InitFiles ==
    { Absent,
      [exists |-> TRUE, readable |-> TRUE, text |-> json_dump(<<>>)],
      [exists |-> TRUE, readable |-> TRUE, text |-> json_dump(<<OldEntry>>)],
      [exists |-> TRUE, readable |-> FALSE, text |-> json_dump(<<OldEntry>>)],
      [exists |-> TRUE, readable |-> TRUE, text |-> <<>>],
      [exists |-> TRUE, readable |-> TRUE, text |-> SubSeq(json_dump(<<OldEntry>>), 1, 7)],
      [exists |-> TRUE, readable |-> TRUE, text |-> <<Punct("{"), Punct("}")>>] }

InitCommon ==
    /\ subject = <<>> /\ difficulty = OptHard /\ reason_text = <<>>
    /\ mood = OptFocused /\ time_available = 60 /\ save_to_history = TRUE
    /\ submit = FALSE /\ clear_clicked = FALSE
    /\ analysis = <<>> /\ plan = NoPlan /\ enriched_text = "None"
    /\ clear_shown = FALSE
    /\ clock = 0
    /\ op = [p \in Procs |-> "none"]
    /\ spc = [p \in Procs |-> "ret"]
    /\ history = [p \in Procs |-> EmptyList]
    /\ entry = [p \in Procs |-> NoEntry]
    /\ raised = [p \in Procs |-> FALSE]
    /\ pre = [p \in Procs |-> file]
    /\ wfail = [p \in Procs |-> "none"]
    /\ race = 0 /\ overlap = FALSE /\ last_dump = 0
    /\ log = <<>>
    /\ clean = ~file.exists
    /\ file0 = file /\ nwrites = 0 /\ ext_outcome = "none"

InitStore ==
    /\ file \in InitFiles
    /\ GOOGLE_GENAI_AVAILABLE = FALSE /\ GEMINI_API_KEY = FALSE
    /\ pc = "api"
    /\ InitCommon

\* one caller: the single local user the store is written for
NextStore == CallLoad(1) \/ CallAppend(1) \/ CallClear(1) \/ StoreStep(1)
SpecStore == InitStore /\ [][NextStore]_vars

\* two callers appending: two sessions of the app saving to the same DATA_FILE
InitConc ==
    /\ file \in {Absent, [exists |-> TRUE, readable |-> TRUE, text |-> json_dump(<<OldEntry>>)]}
    /\ GOOGLE_GENAI_AVAILABLE = FALSE /\ GEMINI_API_KEY = FALSE
    /\ pc = "api"
    /\ InitCommon

NextConc ==
    \E p \in Procs :
        \/ CallAppend(p)
        \/ save_entry_load(p)
        \/ save_entry_append(p)
        \/ save_entry_open(p)
        \/ save_entry_dump(p)
SpecConc == InitConc /\ [][NextConc]_vars

-----------------------------------------------------------------------------
(* Properties of the history store *)

IsPrefix(a, b) == Len(a) <= Len(b) /\ SubSeq(b, 1, Len(a)) = a
Range(s) == {s[i] : i \in DOMAIN s}

\* the records held by the file, whether or not it can be opened for reading
Persisted(f) ==
    IF f.exists /\ json_load(f.text).ok /\ json_load(f.text).type = "list"
    THEN json_load(f.text).val
    ELSE <<>>

\* C1: starting from an absent file, as long as every write has succeeded,
\* loadAll() returns exactly the records appended since the last clearAll()
\* (or since the start), in insertion order: after append(r) the last element
\* is r, and right after clearAll() the result is empty.
C1_LoadReturnsLog ==
    (clean /\ spc[1] = "ret") =>
        /\ load_history(file) = PyVal("list", log)
        /\ (op[1] = "load" => history[1] = PyVal("list", log))
        /\ (op[1] = "append" => log # <<>> /\ load_history(file).val[Len(log)] = entry[1])
        /\ (op[1] = "clear" => load_history(file) = EmptyList)

\* two records appended one after the other are both returned, in order
C1_Witness ==
    /\ clean /\ spc[1] = "ret" /\ op[1] = "append"
    /\ Len(log) = 2
    /\ load_history(file).val[1].timestamp = 1
    /\ load_history(file).val[2] = entry[1]

\* C2: every operation other than clearAll keeps every persisted record,
\* unchanged and at the same position, also when its write fails part-way or
\* the file is unreadable or corrupted.
C2_OnlyClearDestroys ==
    \A p \in Procs :
        (spc[p] = "ret" /\ op[p] \in {"load", "append"}) =>
            IsPrefix(Persisted(pre[p]), Persisted(file))

\* C3: loadAll() never fails, returns the empty sequence when the file is
\* absent or cannot be deserialized, and always returns a sequence that
\* append can extend.
C3_LoadAlwaysList ==
    \A p \in Procs :
        /\ (spc[p] = "ret" /\ op[p] = "load") =>
              /\ history[p].type = "list"
              /\ (~file.exists \/ ~file.readable \/ ~json_load(file.text).ok)
                    => history[p] = EmptyList
        /\ (spc[p] = "ret" /\ op[p] = "append") => ~raised[p]

\* C4: a failed write in append or clearAll raises nothing and leaves what
\* the next loadAll() returns the same as before the operation.
C4_FailedWriteIsNoOp ==
    \A p \in Procs :
        (spc[p] = "ret" /\ wfail[p] # "none") =>
            /\ ~raised[p]
            /\ load_history(file) = load_history(pre[p])

\* two appends that both read before either wrote have both returned, and
\* every write succeeded
RaceDone(f) ==
    /\ race = f
    /\ spc[f] = "ret" /\ spc[Other(f)] = "ret"
    /\ op[f] = "append" /\ op[Other(f)] = "append"
    /\ \A p \in Procs : wfail[p] = "none" /\ ~raised[p]

LaterWriterOnly ==
    /\ file.text = json_dump(history[last_dump].val)
    /\ load_history(file) = history[last_dump]
    /\ entry[last_dump] \in Range(load_history(file).val)
    /\ entry[Other(last_dump)] \notin Range(load_history(file).val)

\* C10 as stated: when two appends both read before either writes, the file
\* finally holds what the later writer wrote, and the other record is lost.
C10_LaterWriterWins == \A f \in Procs : RaceDone(f) => LaterWriterOnly

\* C10 amended: the same, provided the earlier writer has finished writing
\* before the later one opens the file.
C10_LaterWriterWinsNoOverlap == \A f \in Procs : (RaceDone(f) /\ ~overlap) => LaterWriterOnly

\* a lost update: both appends succeeded, only the later record is on disk
C10_Witness ==
    /\ \E f \in Procs : RaceDone(f)
    /\ ~overlap
    /\ LaterWriterOnly
    /\ Len(load_history(file).val) = 1
    /\ clock = 2

-----------------------------------------------------------------------------
(* Direct calls of the plan generator on arbitrary arguments *)

Text_OKAY == <<"O", "K", "A", "Y">>
Text_xyz == <<"x", "y", "z">>
Text_PaddedHard == <<" ", "h", "a", "r", "d", " ">>
Text_HARD == <<"H", "A", "R", "D">>
Text_LOW == <<"L", "O", "W">>
Text_Blank == <<" ", " ", " ">>
Text_FormulasAndConcepts == <<"t", "o", "o", " ", "m", "a", "n", "y", " ", "f", "o", "r", "m", "u", "l", "a", "s", " ", "a", "n", "d", " ", "c", "o", "n", "c", "e", "p", "t", "s">>
Text_TooManyFORMULAS == <<"T", "o", "o", " ", "m", "a", "n", "y", " ", "F", "O", "R", "M", "U", "L", "A", "S">>
Text_LackOfPractice == <<"l", "a", "c", "k", " ", "o", "f", " ", "p", "r", "a", "c", "t", "i", "c", "e">>
Text_AbstractProblems == <<"a", "b", "s", "t", "r", "a", "c", "t", " ", "p", "r", "o", "b", "l", "e", "m", "s">>
Text_boring == <<"b", "o", "r", "i", "n", "g">>

MinTime == 10
MaxTime == 300
TimeProbes == {MinTime, 29, 30, 89, 90, 180, 181, MaxTime}

DifficultyArgs ==
    {OptVeryHard, OptHard, OptMedium, OptEasy, difficult, Text_OKAY, <<>>, Text_xyz,
     Text_PaddedHard, Text_HARD}
MoodArgs == {OptFocused, OptTired, OptStressed, OptLowMotivation, Text_LOW, <<>>}
ReasonArgs ==
    {<<>>, Text_Blank, Text_FormulasAndConcepts, Text_TooManyFORMULAS, Text_LackOfPractice,
     Text_AbstractProblems, Text_boring}
SubjectArgs == {<<>>, Text_Math, Text_PaddedMath}

\* every string combination at the bucket boundaries, and every slider value
FnArgs ==
    {Submission(s, d, r, m, t) :
        s \in SubjectArgs, d \in DifficultyArgs, r \in ReasonArgs, m \in MoodArgs, t \in TimeProbes}
    \cup {Submission(s, OptHard, <<>>, OptFocused, t) : s \in SubjectArgs, t \in MinTime..MaxTime}

InitFn ==
    /\ \E a \in FnArgs :
         /\ subject = a.subject /\ difficulty = a.difficulty /\ reason_text = a.reason_text
         /\ mood = a.mood /\ time_available = a.time_available
    /\ save_to_history = TRUE
    /\ submit = FALSE /\ clear_clicked = FALSE
    /\ analysis = <<>> /\ plan = NoPlan /\ enriched_text = "None"
    /\ GOOGLE_GENAI_AVAILABLE = FALSE /\ GEMINI_API_KEY = FALSE
    /\ pc = "args"
    /\ clear_shown = FALSE
    /\ file = Absent
    /\ clock = 0
    /\ op = [p \in Procs |-> "none"]
    /\ spc = [p \in Procs |-> "ret"]
    /\ history = [p \in Procs |-> EmptyList]
    /\ entry = [p \in Procs |-> NoEntry]
    /\ raised = [p \in Procs |-> FALSE]
    /\ pre = [p \in Procs |-> file]
    /\ wfail = [p \in Procs |-> "none"]
    /\ race = 0 /\ overlap = FALSE /\ last_dump = 0
    /\ log = <<>>
    /\ clean = TRUE
    /\ file0 = file /\ nwrites = 0 /\ ext_outcome = "none"

CallAnalyze ==
    /\ pc = "args"
    /\ analysis' = analyze_reason_local(subject, difficulty, reason_text, mood, time_available)
    /\ pc' = "analyzed"
    /\ UNCHANGED <<formVars, plan, enriched_text, cfgVars, submit, clear_clicked, clear_shown,
                   file0, nwrites, ext_outcome, callVars, raceVars, file, clock, log, clean>>

CallBuildPlan ==
    /\ pc = "analyzed"
    /\ plan' = build_plan_local(subject, difficulty, reason_text, mood, time_available)
    /\ pc' = "planned"
    /\ UNCHANGED <<formVars, analysis, enriched_text, cfgVars, submit, clear_clicked, clear_shown,
                   file0, nwrites, ext_outcome, callVars, raceVars, file, clock, log, clean>>

NextFn == CallAnalyze \/ CallBuildPlan
SpecFn == InitFn /\ [][NextFn]_vars

-----------------------------------------------------------------------------
(* Properties of the plan generator *)

DifficultyFrags == {FragChallenge, FragManageable, FragEasy}

DifficultyFragmentBy(d) ==
    /\ analysis # <<>>
    /\ analysis[1] \in DifficultyFrags
    /\ Cardinality({i \in DOMAIN analysis : analysis[i] \in DifficultyFrags}) = 1
    /\ (analysis[1] = FragChallenge <=> d \in HardLevels)
    /\ (analysis[1] = FragManageable <=> d \in MediumLevels)
    /\ (analysis[1] = FragEasy <=> d \notin (HardLevels \cup MediumLevels))

\* C5 as stated: the result is never empty and starts with exactly one
\* difficulty fragment: challenge iff the lowercased difficulty is very hard /
\* hard / difficult, manageable iff it is medium / okay, easy for every other
\* string.
C5_DifficultyByLowercase ==
    pc \in {"analyzed", "planned"} => DifficultyFragmentBy(lower(difficulty))

\* C5 amended: the same, the difficulty being compared after lowercasing and
\* stripping surrounding whitespace.
C5_DifficultyByLowercaseStripped ==
    pc \in {"analyzed", "planned"} => DifficultyFragmentBy(strip(lower(difficulty)))

\* a padded, and an upper-case, difficulty take the challenge branch
C5_Witness ==
    /\ pc = "analyzed"
    /\ difficulty \in {Text_PaddedHard, Text_HARD}
    /\ analysis[1] = FragChallenge

\* C6: for each keyword group the fragment is present iff the lowercased
\* reason text contains one of the group's keywords, whatever the letter case
\* of the input; no reason fragment for an empty or non-matching text.
C6_KeywordsOnLowercasedReason ==
    pc \in {"analyzed", "planned"} =>
        LET r == lower(reason_text) IN
        /\ FragFormula \in Range(analysis) <=> (contains(r, formul) \/ contains(r, formula))
        /\ FragConcept \in Range(analysis) <=> (contains(r, concept) \/ contains(r, abstract))
        /\ FragPractice \in Range(analysis) <=> (contains(r, practice) \/ contains(r, problems))

TimeBucket(t) == IF t < 30 THEN "micro" ELSE IF t < 90 THEN "pomodoro" ELSE "deep"

\* the bucket a task list belongs to, told by how its first task starts
TasksBucket(tasks) ==
    IF tasks = <<>> THEN "none"
    ELSE IF tasks[1][1] = "Warm-up (5-10 min): quick recap of one key idea from " THEN "micro"
    ELSE IF tasks[1][1] = "Warm-up (10 min): recap notes for " THEN "pomodoro"
    ELSE IF tasks[1][1] = "Warm-up & review (15 min): revisit yesterday's weak points in " THEN "deep"
    ELSE "none"

\* the buckets whose time sentence occurs in a motivational message
MsgBuckets(msg) ==
    {b \in {"micro", "pomodoro", "deep"} :
        (CASE b = "micro" -> MsgMicro [] b = "pomodoro" -> MsgPomodoro [] OTHER -> MsgDeep)
            \in Range(msg)}

\* C7: today_tasks and the time sentence of the message come from the same
\* one of three buckets of the time available: below 30 the 2-item micro
\* list, from 30 to 89 the 3-item Pomodoro list, from 90 the 3-item deep list;
\* the three lists are pairwise distinct.
C7_TimeBuckets ==
    pc = "planned" =>
        LET t == time_available
            tasks == plan.today_tasks
            listAt(u) == build_plan_local(subject, difficulty, reason_text, mood, u).today_tasks
        IN  /\ t \in MinTime..MaxTime
            /\ TasksBucket(tasks) = TimeBucket(t)
            /\ MsgBuckets(plan.motivational_message) = {TimeBucket(t)}
            /\ Len(tasks) = IF t < 30 THEN 2 ELSE 3
            /\ listAt(29) # listAt(30) /\ listAt(89) # listAt(90) /\ listAt(29) # listAt(90)
            /\ listAt(30) = listAt(89)

\* the last minute of the Pomodoro bucket
C7_Witness ==
    /\ pc = "planned"
    /\ time_available = 89
    /\ Len(plan.today_tasks) = 3
    /\ TasksBucket(plan.today_tasks) = "pomodoro"
    /\ MsgBuckets(plan.motivational_message) = {"pomodoro"}

-----------------------------------------------------------------------------
(* The page script, run once per user interaction by one session (caller 1) *)

None == "None"
Responses == {"raises", "text", "no_text"}

\* gemini_enrich returning the error message instead of None
gemini_enrich_error_text(available, key, resp) ==
    IF ~available \/ ~key THEN None
    ELSE IF resp = "raises" THEN "str(exception)"
    ELSE IF resp = "text" THEN "resp.text"
    ELSE "str(resp)"

\* gemini_enrich: None when not configured or when the call raises, else
\* resp.text, or str(resp) when resp has no text
gemini_enrich(available, key, resp) ==
    IF ~available \/ ~key THEN None
    ELSE IF resp = "raises" THEN None
    ELSE IF resp = "text" THEN "resp.text"
    ELSE "str(resp)"

\* bool(history)
truthy(v) == v.val # <<>>

\* the user loads the page or presses a button; the script starts from the top
StartRun ==
    /\ pc = "wait"
    /\ \E trig \in {"none", "submit", "clear"} :
         /\ trig = "clear" => clear_shown
         /\ submit' = (trig = "submit")
         /\ clear_clicked' = (trig = "clear")
         /\ IF trig = "submit"
            THEN \E s \in Submissions, save \in BOOLEAN :
                   /\ subject' = s.subject /\ difficulty' = s.difficulty
                   /\ reason_text' = s.reason_text /\ mood' = s.mood
                   /\ time_available' = s.time_available
                   /\ save_to_history' = save
                   /\ save => clock < MaxClock
            ELSE UNCHANGED formVars
    /\ analysis' = <<>> /\ plan' = NoPlan /\ enriched_text' = None
    /\ clear_shown' = FALSE
    /\ file0' = file /\ nwrites' = 0 /\ ext_outcome' = "none"
    /\ pc' = "script"
    /\ UNCHANGED <<cfgVars, callVars, raceVars, file, clock, log, clean>>

\* if submit: local analysis and plan
SubmitBranch ==
    /\ pc = "script" /\ submit
    /\ LET context == context_subject(subject) IN
         /\ analysis' = analyze_reason_local(context, difficulty, reason_text, mood, time_available)
         /\ plan' = build_plan_local(context, difficulty, reason_text, mood, time_available)
    /\ pc' = "enrich"
    /\ UNCHANGED <<formVars, enriched_text, cfgVars, submit, clear_clicked, clear_shown,
                   file0, nwrites, ext_outcome, callVars, raceVars, file, clock, log, clean>>

\* else: only the hint is shown
ElseBranch ==
    /\ pc = "script" /\ ~submit
    /\ pc' = "history"
    /\ UNCHANGED <<formVars, outVars, cfgVars, submit, clear_clicked, clear_shown,
                   file0, nwrites, ext_outcome, callVars, raceVars, file, clock, log, clean>>

\* optional Gemini enrichment; the page swallows whatever gemini_enrich raises
Enrich ==
    /\ pc = "enrich"
    /\ IF GOOGLE_GENAI_AVAILABLE /\ GEMINI_API_KEY
       THEN \E resp \in Responses :
              /\ enriched_text' = gemini_enrich(GOOGLE_GENAI_AVAILABLE, GEMINI_API_KEY, resp)
              /\ ext_outcome' = resp
       ELSE /\ enriched_text' = None
            /\ ext_outcome' = "none"
    /\ pc' = "save"
    /\ UNCHANGED <<formVars, analysis, plan, cfgVars, submit, clear_clicked, clear_shown,
                   file0, nwrites, callVars, raceVars, file, clock, log, clean>>

\* if save_to_history: build the entry and call save_entry
SaveChecked ==
    /\ pc = "save" /\ save_to_history
    /\ clock' = clock + 1
    /\ Begin(1, "append", "se_load",
             page_entry(clock + 1, context_subject(subject), difficulty, reason_text, mood,
                        time_available, analysis, plan.today_tasks))
    /\ nwrites' = nwrites + 1
    /\ pc' = "saving"
    /\ UNCHANGED <<formVars, outVars, cfgVars, submit, clear_clicked, clear_shown,
                   file0, ext_outcome, file, log, clean>>

SaveUnchecked ==
    /\ pc = "save" /\ ~save_to_history
    /\ pc' = "history"
    /\ UNCHANGED <<formVars, outVars, cfgVars, submit, clear_clicked, clear_shown,
                   file0, nwrites, ext_outcome, callVars, raceVars, file, clock, log, clean>>

\* save_entry has returned, or has raised and the run stops with an error
Saved ==
    /\ pc = "saving" /\ spc[1] = "ret"
    /\ pc' = IF raised[1] THEN "wait" ELSE "history"
    /\ UNCHANGED <<formVars, outVars, cfgVars, submit, clear_clicked, clear_shown,
                   file0, nwrites, ext_outcome, callVars, raceVars, file, clock, log, clean>>

\* history card: history = load_history()
HistoryCard ==
    /\ pc = "history"
    /\ Begin(1, "load", "lh", entry[1])
    /\ pc' = "loading"
    /\ UNCHANGED <<formVars, outVars, cfgVars, submit, clear_clicked, clear_shown,
                   file0, nwrites, ext_outcome, file, clock, log, clean>>

\* if history: the table and both buttons are shown; a click on "Clear history"
\* calls clear_history.  else: only a hint.
HistoryShown ==
    /\ pc = "loading" /\ spc[1] = "ret"
    /\ clear_shown' = truthy(history[1])
    /\ IF truthy(history[1]) /\ clear_clicked
       THEN /\ Begin(1, "clear", "ch_open", entry[1])
            /\ nwrites' = nwrites + 1
            /\ pc' = "clearing"
       ELSE /\ pc' = "wait"
            /\ UNCHANGED <<nwrites, callVars, raceVars>>
    /\ UNCHANGED <<formVars, outVars, cfgVars, submit, clear_clicked,
                   file0, ext_outcome, file, clock, log, clean>>

\* clear_history has returned: st.experimental_rerun() starts the script again
Rerun ==
    /\ pc = "clearing" /\ spc[1] = "ret"
    /\ submit' = FALSE /\ clear_clicked' = FALSE
    /\ analysis' = <<>> /\ plan' = NoPlan /\ enriched_text' = None
    /\ clear_shown' = FALSE
    /\ file0' = file /\ nwrites' = 0 /\ ext_outcome' = "none"
    /\ pc' = "script"
    /\ UNCHANGED <<formVars, cfgVars, callVars, raceVars, file, clock, log, clean>>

InitPage ==
    /\ file \in InitFiles
    /\ GOOGLE_GENAI_AVAILABLE \in BOOLEAN /\ GEMINI_API_KEY \in BOOLEAN
    /\ pc = "wait"
    /\ InitCommon

NextPage ==
    \/ StartRun \/ SubmitBranch \/ ElseBranch \/ Enrich \/ SaveChecked \/ SaveUnchecked
    \/ Saved \/ HistoryCard \/ HistoryShown \/ Rerun
    \/ StoreStep(1)
SpecPage == InitPage /\ [][NextPage]_vars

-----------------------------------------------------------------------------
(* Properties of the page run *)

ListOf(v) == IF v.type = "list" THEN v.val ELSE <<>>

AfterEnrich == pc \in {"save", "saving", "history", "loading", "clearing"} /\ submit

\* text is returned only by a configured, successful call
EnrichAbsentUnlessSuccess ==
    AfterEnrich =>
        /\ enriched_text # None <=>
              (GOOGLE_GENAI_AVAILABLE /\ GEMINI_API_KEY /\ ext_outcome \in {"text", "no_text"})
        /\ analysis = analyze_reason_local(context_subject(subject), difficulty, reason_text,
                                           mood, time_available)
        /\ plan = build_plan_local(context_subject(subject), difficulty, reason_text,
                                   mood, time_available)

\* whatever the enrichment does, the script goes on to the save step with the
\* analysis, the plan, the form and the store untouched
EnrichStepProceeds ==
    pc = "enrich" =>
        /\ pc' = "save"
        /\ UNCHANGED <<formVars, analysis, plan, file, callVars, clock>>

\* C8: enrich returns None when no credential or client is configured and
\* when the external call raises; only a successful call returns text; in
\* every case the rest of the submit flow goes on identically.
C8_EnrichFailsToAbsent == []EnrichAbsentUnlessSuccess /\ [][EnrichStepProceeds]_vars

\* the external call raised, the result is None and the save step is next
C8_Witness ==
    /\ pc = "save"
    /\ GOOGLE_GENAI_AVAILABLE /\ GEMINI_API_KEY
    /\ ext_outcome = "raises"
    /\ enriched_text = None
    /\ analysis # <<>>

\* save_entry has just returned to a run with submit pressed and the box ticked
RunSaved == pc = "history" /\ submit /\ save_to_history

\* the run does not ask for anything to be stored or cleared
RunReadOnly == pc = "wait" /\ ~(submit /\ save_to_history) /\ ~clear_clicked

EntryFieldsAre(e, subj) ==
    /\ e.subject = subj
    /\ e.difficulty = difficulty
    /\ e.reason = reason_text
    /\ e.mood = mood
    /\ e.time_available = time_available
    /\ e.analysis = analysis
    /\ e.today_tasks = plan.today_tasks

====
